---------------------------- MODULE Spec2Model ----------------------------
(***************************************************************************)
(* A model of src/js/excel.js: the object `excel` and its nine financial   *)
(* functions PV, FV, RATE, PMT, PPMT, IPMT, NPER, EFFECT and NOMINAL.      *)
(*                                                                         *)
(* JavaScript values.  A number is a pair <<n, d>>: the rational n/d in    *)
(* lowest terms with d > 0, or one of the IEEE-754 special values          *)
(* NaN = <<0,0>>, +Infinity = <<1,0>>, -Infinity = <<-1,0>>.  The value    *)
(* `undefined` (an omitted argument, an unassigned `var`) is <<>>, and a   *)
(* string is the 1-tuple holding it.  Zero carries no sign: every divisor  *)
(* of the source that can be zero is +0 for the inputs drawn here (1+rate, *)
(* term-1, 1-1/term, Math.pow(0,n), Math.log(1), and an argument given as  *)
(* 0).                                                                     *)
(*                                                                         *)
(* Arithmetic.  Add, Sub, Mul, Div and Pow are the operations on the real  *)
(* numbers, with the IEEE-754 rules on the special values.  The program's  *)
(* operators +, -, *, / and Math.pow are FAdd, FSub, FMul, FDiv and        *)
(* MathPow: the real result, rounded as the variable `arith` says.  With   *)
(* arith = "float" every result is rounded to the nearest floating-point   *)
(* number with a MantBits-bit significand (ties to even), with gradual     *)
(* underflow below 2^-ExpRange and overflow to an infinity from            *)
(* 2^(ExpRange+1), as binary64 does with 53 bits and 11 exponent bits;     *)
(* with arith = "exact" nothing is rounded, which is the arithmetic a      *)
(* statement "in exact arithmetic" is about.  RATE, an iteration, is run   *)
(* in floating point only.                                                 *)
(***************************************************************************)
EXTENDS Integers, Sequences, FiniteSets, TLC

(***************************************************************************)
(* Bounds of the model.                                                    *)
(***************************************************************************)
\* nper (periods) and per (period) are drawn from 1..MaxPeriods.
MaxPeriods == 3
\* Callers of ConcurrentSpec (Spec and RateSpec have one).
MaxCallers == 2
\* Significand bits of the floating-point arithmetic.
MantBits == 5
\* Its normal numbers have the exponents -ExpRange..ExpRange.
ExpRange == 6

(***************************************************************************)
(* The state.  `excel` is the one object the script creates: it maps each  *)
(* member name to the function stored under it.  `th` holds, for every     *)
(* caller (thread of control), the call it makes of a member of excel: the *)
(* member called (fn), the arguments (a), the position in the function's   *)
(* body (pc), the functions' local variables (l) and the value returned    *)
(* (ret).  `arith` is the arithmetic of the engine that runs the script.   *)
(***************************************************************************)
VARIABLES excel, th, arith

vars == <<excel, th, arith>>

(***************************************************************************)
(* JavaScript values.                                                      *)
(***************************************************************************)
NaN == <<0, 0>>
PosInf == <<1, 0>>
NegInf == <<-1, 0>>
Undefined == <<>>
ErrVALUE == <<"#VALUE!">>
ErrNUM == <<"#NUM!">>

\* typeof v === 'undefined'
IsUndefined(v) == Len(v) = 0
\* typeof v === 'number'
IsNumber(v) == Len(v) = 2
\* typeof v === 'string'
IsString(v) == Len(v) = 1
\* isNaN(v), v a number
IsNaN(v) == v = NaN
\* isFinite(v), v a number
IsFinite(v) == v[2] # 0

AbsInt(n) == IF n < 0 THEN -n ELSE n

\* The greatest common divisor of a and b
GCD[a \in Nat, b \in Nat] == IF b = 0 THEN a ELSE GCD[b, a % b]

\* n/d (d # 0) in lowest terms, the denominator positive
Lowest[n \in Int, d \in Int] ==
  LET g == GCD[AbsInt(n), AbsInt(d)]
      s == IF d < 0 THEN -1 ELSE 1
  IN  <<(s * n) \div g, (s * d) \div g>>

\* The number n/d (d # 0).
Frac(n, d) == Lowest[n, d]

Num(n) == <<n, 1>>
Zero == <<0, 1>>
One == <<1, 1>>

\* -1, 0 or 1: the sign of a number (0 for NaN and for zero).
Sign(x) == IF x[1] > 0 THEN 1 ELSE IF x[1] < 0 THEN -1 ELSE 0

Inf(s) == IF s > 0 THEN PosInf ELSE NegInf

(***************************************************************************)
(* The operations on the real numbers, and on NaN and the infinities by    *)
(* the IEEE-754 rules.                                                     *)
(***************************************************************************)
\* -x
Neg(x) == <<-x[1], x[2]>>

\* x + y
Add(x, y) ==
  IF IsNaN(x) \/ IsNaN(y) THEN NaN
  ELSE IF ~IsFinite(x) /\ ~IsFinite(y) THEN (IF x = y THEN x ELSE NaN)
  ELSE IF ~IsFinite(x) THEN x
  ELSE IF ~IsFinite(y) THEN y
  ELSE Frac(x[1] * y[2] + y[1] * x[2], x[2] * y[2])

\* x - y
Sub(x, y) == Add(x, Neg(y))

\* x * y
Mul(x, y) ==
  IF IsNaN(x) \/ IsNaN(y) THEN NaN
  ELSE IF ~IsFinite(x) \/ ~IsFinite(y)
       THEN (IF Sign(x) * Sign(y) = 0 THEN NaN ELSE Inf(Sign(x) * Sign(y)))
  ELSE Frac(x[1] * y[1], x[2] * y[2])

\* x / y
Div(x, y) ==
  IF IsNaN(x) \/ IsNaN(y) THEN NaN
  ELSE IF ~IsFinite(x) /\ ~IsFinite(y) THEN NaN
  ELSE IF ~IsFinite(x) THEN Inf(Sign(x) * (IF Sign(y) < 0 THEN -1 ELSE 1))
  ELSE IF ~IsFinite(y) THEN Zero
  ELSE IF y[1] = 0 THEN (IF x[1] = 0 THEN NaN ELSE Inf(Sign(x)))
  ELSE Frac(x[1] * y[2], x[2] * y[1])

\* Math.abs(x)
Abs(x) == <<AbsInt(x[1]), x[2]>>

\* x < y  (false when either is NaN)
Lt(x, y) ==
  IF IsNaN(x) \/ IsNaN(y) THEN FALSE
  ELSE IF ~IsFinite(x) \/ ~IsFinite(y)
       THEN x # y /\ (x = NegInf \/ y = PosInf)
  ELSE x[1] * y[2] < y[1] * x[2]

\* x > y
Gt(x, y) == Lt(y, x)

\* x <= y  (false when either is NaN)
Le(x, y) == ~IsNaN(x) /\ ~IsNaN(y) /\ ~Lt(y, x)

\* x === y on numbers (false when either is NaN)
Eq(x, y) == ~IsNaN(x) /\ ~IsNaN(y) /\ x = y

\* x is a finite number with an integer value
IsInt(x) == x[2] = 1

RECURSIVE IntPow(_, _)
\* x^k for a finite x and an integer k >= 0, by repeated multiplication
IntPow(x, k) == IF k = 0 THEN One ELSE Mul(IntPow(x, k - 1), x)

\* The a >= 0 with a^k = m: the exact k-th root of a perfect k-th power.
IntRoot(m, k) == CHOOSE a \in 0..m : IntPow(Num(a), k) = Num(m)

\* x to the power y, for y finite (an integer or the reciprocal 1/k of one)
\* or NaN
Pow(x, y) ==
  IF IsNaN(y) THEN NaN
  ELSE IF y = Zero THEN One
  ELSE IF IsNaN(x) THEN NaN
  ELSE IF ~IsFinite(x)
       THEN (IF Sign(y) < 0 THEN Zero
             ELSE IF x = NegInf /\ IsInt(y) /\ y[1] % 2 = 1 THEN NegInf
             ELSE PosInf)
  ELSE IF x = Zero THEN (IF Sign(y) > 0 THEN Zero ELSE PosInf)
  ELSE IF IsInt(y)
       THEN (IF y[1] > 0 THEN IntPow(x, y[1])
             ELSE Div(One, IntPow(x, -y[1])))
  ELSE IF Sign(x) < 0 THEN NaN
  ELSE \* y = 1/k: the k-th root of a positive rational
       <<IntRoot(x[1], y[2]), IntRoot(x[2], y[2])>>

\* The sign of Math.log(x) for a finite x > 0, x # 1.
LogSign(x) == IF Lt(x, One) THEN -1 ELSE 1

\* Math.log(x).  The logarithm of a finite x > 0, x # 1 is irrational:
\* it is kept as the triple <<"log", n, d>> that stands for ln(n/d).
Log(x) ==
  IF IsNaN(x) \/ Sign(x) < 0 THEN NaN
  ELSE IF x = Zero THEN NegInf
  ELSE IF x = PosInf THEN PosInf
  ELSE IF x = One THEN Zero
  ELSE <<"log", x[1], x[2]>>

IsLog(v) == Len(v) = 3
LogArg(v) == <<v[2], v[3]>>

\* b^k for a finite b # 0 and any integer k
IntPowZ(b, k) == IF k >= 0 THEN IntPow(b, k) ELSE Div(One, IntPow(b, -k))

\* ln(a)/ln(b) is the integer k with b^k = a, for k in -MaxPeriods..MaxPeriods
LogRepresentable(a, b) ==
  \E k \in -MaxPeriods..MaxPeriods : IntPowZ(b, k) = a

\* u / v where u and v are results of Math.log.  Two finite non-zero
\* logarithms divide to the k with b^k = a; every other case is decided by
\* the IEEE-754 rules from the signs alone.
LogDiv(u, v) ==
  IF IsLog(u) /\ IsLog(v)
  THEN Num(CHOOSE k \in -MaxPeriods..MaxPeriods :
             IntPowZ(LogArg(v), k) = LogArg(u))
  ELSE Div(IF IsLog(u) THEN Num(LogSign(LogArg(u))) ELSE u,
           IF IsLog(v) THEN Num(LogSign(LogArg(v))) ELSE v)

\* parseInt(x, 10) of a number: NaN for NaN and the infinities ("Infinity"
\* starts with no digit), else the integer part (the digits before the
\* decimal point of the number's decimal string, for 1e-6 <= |x| < 1e21).
parseInt(x) ==
  IF ~IsFinite(x) THEN NaN
  ELSE IF x[1] >= 0 THEN Num(x[1] \div x[2])
  ELSE Num(-((-x[1]) \div x[2]))

\* isNaN(v): the global function, which converts v to a number first
isNaN(v) == IsUndefined(v) \/ v = NaN

\* (typeof v === 'undefined') ? dflt : v
Default(v, dflt) == IF IsUndefined(v) THEN dflt ELSE v

(***************************************************************************)
(* The arithmetic of the program: rounding, the operators + - * / and      *)
(* Math.pow, Math.exp and Math.log.                                        *)
(***************************************************************************)
Pow2[k \in Nat] == IF k = 0 THEN 1 ELSE 2 * Pow2[k - 1]

\* The e + k with 2^k <= a/d < 2^(k+1), for a, d > 0 (applied with e = 0)
Exponent[a \in Nat, d \in Nat, e \in Int] ==
  IF a >= 2 * d THEN Exponent[a, 2 * d, e + 1]
  ELSE IF a < d THEN Exponent[2 * a, d, e - 1]
  ELSE e

\* The exponent of the quantum of a number of exponent e: MantBits
\* significant bits, subnormal below 2^-ExpRange.
QuantumExp(e) == (IF e < -ExpRange THEN -ExpRange ELSE e) - MantBits + 1

\* The integer nearest to p/r (p >= 0, r > 0), ties to even.
RoundDiv(p, r) ==
  LET fl == p \div r
      rem == p % r
  IN  IF 2 * rem > r \/ (2 * rem = r /\ fl % 2 = 1) THEN fl + 1 ELSE fl

\* The multiple of 2^qe nearest to a/d.
RoundTo[a \in Nat, d \in Nat, qe \in Int] ==
  IF qe < 0
  THEN Frac(RoundDiv(a * Pow2[-qe], d), Pow2[-qe])
  ELSE Num(RoundDiv(a, d * Pow2[qe]) * Pow2[qe])

\* The magnitude v with the sign s; an infinity from 2^(ExpRange+1).
Signed[v \in Seq(Int), s \in Int] ==
  IF ~Lt(v, Num(Pow2[ExpRange + 1])) THEN Inf(s)
  ELSE IF s < 0 THEN Neg(v) ELSE v

\* The floating-point number nearest to x.
Round[x \in Seq(Int)] ==
  IF ~IsFinite(x) \/ x[1] = 0 THEN x
  ELSE Signed[RoundTo[AbsInt(x[1]), x[2],
                      QuantumExp(Exponent[AbsInt(x[1]), x[2], 0])],
              Sign(x)]

\* The value the engine stores for the real number x.
Rnd(x) == IF arith = "float" THEN Round[x] ELSE x

\* The operands of a binary operator, evaluated: a pair of numbers.
Operands == Seq(Seq(Int))

\* x + y, x - y, x * y and x / y of the operands p = <<x, y>>
Sum[p \in Operands] == Rnd(Add(p[1], p[2]))
Difference[p \in Operands] == Rnd(Sub(p[1], p[2]))
Product[p \in Operands] == Rnd(Mul(p[1], p[2]))
Quotient[p \in Operands] == Rnd(Div(p[1], p[2]))

\* The operators evaluate both operands, then apply the operation.
FAdd(x, y) == Sum[<<x, y>>]
FSub(x, y) == Difference[<<x, y>>]
FMul(x, y) == Product[<<x, y>>]
FDiv(x, y) == Quotient[<<x, y>>]

\* Math.pow(x, y)
MathPow(x, y) == Rnd(Pow(x, y))

RECURSIVE FPow(_, _)
\* b^k (k >= 0 an integer) by k rounded multiplications
FPow(b, k) == IF k = 0 THEN One ELSE FMul(FPow(b, k - 1), b)

\* Math.exp(periods * Math.log(b)), for periods an integer >= 0:
\* Math.log(b) is NaN for b < 0, -Infinity for b = 0; 0 * Infinity is NaN.
ExpLog(periods, b) ==
  IF IsNaN(b) \/ Sign(b) < 0 THEN NaN
  ELSE IF b = Zero THEN (IF periods = Zero THEN NaN ELSE Zero)
  ELSE IF b = PosInf THEN (IF periods = Zero THEN NaN ELSE PosInf)
  ELSE FPow(b, periods[1])

\* epsMax = 1e-10 = 1 / (epsMaxRoot * epsMaxRoot)
epsMaxRoot == 100000
iterMax == 50

\* x > epsMax for x >= 0:  n/d > 1/epsMaxRoot^2  iff  n*epsMaxRoot > d/epsMaxRoot
GtEpsMax(x) ==
  /\ ~IsNaN(x)
  /\ \/ x = PosInf
     \/ IsFinite(x) /\ x[1] * epsMaxRoot > x[2] \div epsMaxRoot

\* x < epsMax for x >= 0:  n*epsMaxRoot < d/epsMaxRoot
LtEpsMax(x) ==
  /\ IsFinite(x)
  /\ x[1] * epsMaxRoot < (x[2] + epsMaxRoot - 1) \div epsMaxRoot

(***************************************************************************)
(* The closed forms.                                                       *)
(***************************************************************************)
\* line 31, pow the value of Math.pow(1+rate,periods)
PV_pow(rate, payment, future, t, pow) ==
  FDiv(FSub(FMul(FMul(FDiv(FSub(One, pow), rate), payment),
                 FAdd(One, FMul(rate, t))),
            future),
       pow)

PV(rate, periods, payment, future, type) ==
  IF rate = Zero
  THEN FSub(FMul(Neg(payment), periods), future)
  ELSE PV_pow(rate, payment, future, Default(type, Zero),
              MathPow(FAdd(One, rate), periods))

\* lines 50-54, term the value of line 49
FV_term(rate, payment, value, t, term) ==
  IF t = One
  THEN FAdd(FMul(value, term),
            FDiv(FMul(FMul(payment, FAdd(One, rate)), FSub(term, One)), rate))
  ELSE FAdd(FMul(value, term), FDiv(FMul(payment, FSub(term, One)), rate))

FV(rate, periods, payment, value, type) ==
  Neg(IF rate = Zero
      THEN FAdd(value, FMul(payment, periods))
      ELSE FV_term(rate, payment, value, Default(type, Zero),
                   MathPow(FAdd(One, rate), periods)))

\* PMT's sum with the present value divided by term-1, as the future value
\* is, instead of by 1-1/term.
PMT_annuity_undiscounted(rate, present, fut, term) ==
  FAdd(FDiv(FMul(fut, rate), FSub(term, One)),
       FDiv(FMul(present, rate), FSub(term, One)))

\* future*rate/(term-1)+present*rate/(1-1/term), term the value of line 125
PMT_annuity(rate, present, fut, term) ==
  FAdd(FDiv(FMul(fut, rate), FSub(term, One)),
       FDiv(FMul(present, rate), FSub(One, FDiv(One, term))))

\* lines 126-130, annuity the sum both branches compute
PMT_type(rate, t, annuity) ==
  IF t = One THEN FDiv(annuity, FAdd(One, rate)) ELSE annuity

PMT(rate, periods, present, future, type) ==
  Neg(IF rate = Zero
      THEN FDiv(FAdd(present, Default(future, Zero)), periods)
      ELSE PMT_type(rate, Default(type, Zero),
                    PMT_annuity(rate, present, Default(future, Zero),
                                MathPow(FAdd(One, rate), periods))))

\* IPMT lines 158-170, given the payment of line 155
IPMT_interest(rate, period, present, payment, t) ==
  IF period = One
  THEN (IF t = One THEN Zero ELSE Neg(present))
  ELSE IF t = One
  THEN FSub(FV(rate, FSub(period, Num(2)), payment, present, One), payment)
  ELSE FV(rate, FSub(period, One), payment, present, Zero)

\* IPMT lines 155-172, t the value of line 153
IPMT_type(rate, period, periods, present, future, t) ==
  FMul(IPMT_interest(rate, period, present,
                     PMT(rate, periods, present, future, t), t),
       rate)

IPMT(rate, period, periods, present, future, type) ==
  IPMT_type(rate, period, periods, present, future, Default(type, Zero))

PPMT(rate, period, periods, present, future, type) ==
  FSub(PMT(rate, periods, present, future, type),
       IPMT(rate, period, periods, present, future, type))

\* line 187
NPER_num(rate, payment, fut, t) ==
  FSub(FMul(payment, FAdd(One, FMul(rate, t))), FMul(fut, rate))

\* line 188
NPER_den(rate, payment, present, t) ==
  FAdd(FMul(present, rate), FMul(payment, FAdd(One, FMul(rate, t))))

\* The quotient of the two logarithms is taken as the real quotient, rounded.
NPER(rate, payment, present, future, type) ==
  Rnd(LogDiv(Log(FDiv(NPER_num(rate, payment, Default(future, Zero),
                               Default(type, Zero)),
                      NPER_den(rate, payment, present, Default(type, Zero)))),
             Log(FAdd(One, rate))))

\* line 206, p the value of line 204
EFFECT_pow(rate, p) == FSub(MathPow(FAdd(One, FDiv(rate, p)), p), One)

EFFECT(rate, periods) ==
  IF isNaN(rate) \/ isNaN(periods) THEN ErrVALUE
  ELSE IF Le(rate, Zero) \/ Lt(periods, One) THEN ErrNUM
  ELSE EFFECT_pow(rate, parseInt(periods))

\* line 223, p the value of line 221
NOMINAL_pow(rate, p) ==
  FMul(FSub(MathPow(FAdd(rate, One), FDiv(One, p)), One), p)

NOMINAL(rate, periods) ==
  IF isNaN(rate) \/ isNaN(periods) THEN ErrVALUE
  ELSE IF Le(rate, Zero) \/ Lt(periods, One) THEN ErrNUM
  ELSE NOMINAL_pow(rate, parseInt(periods))

(***************************************************************************)
(* RATE.  Its local variables are a record; `periods` is an integer.       *)
(***************************************************************************)
\* present*(1+periods*rate)+payment*(1+rate*type)*periods+future
RATE_linear(periods, payment, present, future, type, rate) ==
  FAdd(FAdd(FMul(present, FAdd(One, FMul(periods, rate))),
            FMul(FMul(payment, FAdd(One, FMul(rate, type))), periods)),
       future)

\* present*f+payment*(1/rate+type)*(f-1)+future
RATE_exponential(payment, present, future, type, rate, f) ==
  FAdd(FAdd(FMul(present, f),
            FMul(FMul(payment, FAdd(FDiv(One, rate), type)), FSub(f, One))),
       future)

\* The if/else of lines 83-88 and 97-102: the new values of <<y, f>>, f
\* the value it had.
RATE_residual(periods, payment, present, future, type, rate, f) ==
  LET \* line 87 (101), f the value line 86 (100) assigned
      withF[f1 \in Seq(Int)] ==
        <<RATE_exponential(payment, present, future, type, rate, f1), f1>>
  IN  IF LtEpsMax(Abs(rate))
      THEN <<RATE_linear(periods, payment, present, future, type, rate), f>>
      ELSE withF[ExpLog(periods, FAdd(One, rate))]

\* lines 89-92, yf the values of <<y, f>> after lines 83-88
RATE_init(periods, payment, present, future, type, guess, yf) ==
  [future |-> future, type |-> type, guess |-> guess,
   rate |-> guess,
   y |-> yf[1], f |-> yf[2],
   y0 |-> FAdd(FAdd(present, FMul(payment, periods)), future),
   y1 |-> RATE_exponential(payment, present, future, type, guess, yf[2]),
   i |-> 0, x0 |-> Zero, x1 |-> guess]

\* lines 82-92, the parameters defaulted
RATE_start(periods, payment, present, future, type, guess) ==
  LET init[yf \in Seq(Seq(Int))] ==
        RATE_init(periods, payment, present, future, type, guess, yf)
  IN  init[RATE_residual(periods, payment, present, future, type, guess,
                         Zero)]

\* The locals after lines 68-92.
RATE_entry(periods, payment, present, future, type, guess) ==
  RATE_start(periods, payment, present, Default(future, Zero),
             Default(type, Zero), Default(guess, Rnd(Frac(1, 100))))

\* The loop condition without the test of the iteration counter.
RATE_continue_uncapped(l) == GtEpsMax(Abs(FSub(l.y0, l.y1)))

\* The loop condition of line 93.
RATE_continue(l) == GtEpsMax(Abs(FSub(l.y0, l.y1))) /\ l.i < iterMax

\* line 94
RATE_secant(l) ==
  FDiv(FSub(FMul(l.y1, l.x0), FMul(l.y0, l.x1)), FSub(l.y1, l.y0))

\* The assignments with lines 95 and 96 exchanged: x1=rate; x0=x1;
RATE_assign_exchanged(l, rate, yf) ==
  [l EXCEPT !.rate = rate, !.x0 = rate, !.x1 = rate,
            !.y = yf[1], !.f = yf[2],
            !.y0 = l.y1, !.y1 = yf[1], !.i = l.i + 1]

\* lines 95-96 and 103-105, yf the values of <<y, f>> after lines 97-102
RATE_assign(l, rate, yf) ==
  [l EXCEPT !.rate = rate, !.x0 = l.x1, !.x1 = rate,
            !.y = yf[1], !.f = yf[2],
            !.y0 = l.y1, !.y1 = yf[1], !.i = l.i + 1]

\* lines 95-105, rate the value assigned by line 94
RATE_update(periods, payment, present, l, rate) ==
  LET assign[yf \in Seq(Seq(Int))] == RATE_assign(l, rate, yf)
  IN  assign[RATE_residual(periods, payment, present, l.future, l.type,
                           rate, l.f)]

\* The locals after one execution of the loop body, lines 94-105.
RATE_iterate(periods, payment, present, l) ==
  LET update[rate \in Seq(Int)] ==
        RATE_update(periods, payment, present, l, rate)
  IN  update[RATE_secant(l)]

RECURSIVE RATE_loop(_, _, _, _)
RATE_loop(periods, payment, present, l) ==
  IF RATE_continue(l)
  THEN RATE_loop(periods, payment, present,
                 RATE_iterate(periods, payment, present, l))
  ELSE l

\* The value RATE returns (line 107).
RATE(periods, payment, present, future, type, guess) ==
  RATE_loop(periods, payment, present,
            RATE_entry(periods, payment, present, future, type, guess)).rate

(***************************************************************************)
(* The program: the object, the calls and the steps of the functions.      *)
(***************************************************************************)
Members ==
  {"PV", "FV", "RATE", "PMT", "PPMT", "IPMT", "NPER", "EFFECT", "NOMINAL"}

\* var excel = { PV: function ..., ..., NOMINAL: function ... }
excelObject == [m \in Members |-> m]

Args(rate, period, periods, payment, present, future, type, guess) ==
  [rate |-> rate, period |-> period, periods |-> periods,
   payment |-> payment, present |-> present, future |-> future,
   type |-> type, guess |-> guess]

\* The function `f` applied to the arguments a, run on its own.
Apply(f, a) ==
  CASE f = "PV" -> PV(a.rate, a.periods, a.payment, a.future, a.type)
    [] f = "FV" -> FV(a.rate, a.periods, a.payment, a.present, a.type)
    [] f = "RATE" ->
         RATE(a.periods, a.payment, a.present, a.future, a.type, a.guess)
    [] f = "PMT" -> PMT(a.rate, a.periods, a.present, a.future, a.type)
    [] f = "PPMT" ->
         PPMT(a.rate, a.period, a.periods, a.present, a.future, a.type)
    [] f = "IPMT" ->
         IPMT(a.rate, a.period, a.periods, a.present, a.future, a.type)
    [] f = "NPER" -> NPER(a.rate, a.payment, a.present, a.future, a.type)
    [] f = "EFFECT" -> EFFECT(a.rate, a.periods)
    [] f = "NOMINAL" -> NOMINAL(a.rate, a.periods)

\* Every `var` of the function bodies, before its first assignment.
NoLocals ==
  [future |-> Undefined, type |-> Undefined, guess |-> Undefined,
   rate |-> Undefined, y |-> Undefined, f |-> Undefined,
   y0 |-> Undefined, y1 |-> Undefined, i |-> 0,
   x0 |-> Undefined, x1 |-> Undefined,
   payment |-> Undefined, interest |-> Undefined,
   pmt |-> Undefined, ipmt |-> Undefined]

\* A caller about to call excel[fn] with the arguments a.
Caller(fn, a) ==
  [fn |-> fn, a |-> a, pc |-> "call", l |-> NoLocals, ret |-> Undefined]

\* The call of caller t returns v.
Return(t, v) == th' = [th EXCEPT ![t].ret = v, ![t].pc = "done"]

\* Caller t is at the position pc of a function's body.
At(t, pc) == t \in DOMAIN th /\ th[t].pc = pc

\* Caller t is at the start of the body of function f.
Entered(t, f) ==
  t \in DOMAIN th /\ th[t].pc = "call" /\ excel[th[t].fn] = f

(***************************************************************************)
(* The functions without calls of other members: one step each.            *)
(***************************************************************************)
PV_call(t) ==
  /\ Entered(t, "PV")
  /\ Return(t, LET a == th[t].a
               IN  PV(a.rate, a.periods, a.payment, a.future, a.type))
  /\ UNCHANGED <<excel, arith>>

FV_call(t) ==
  /\ Entered(t, "FV")
  /\ Return(t, LET a == th[t].a
               IN  FV(a.rate, a.periods, a.payment, a.present, a.type))
  /\ UNCHANGED <<excel, arith>>

PMT_call(t) ==
  /\ Entered(t, "PMT")
  /\ Return(t, LET a == th[t].a
               IN  PMT(a.rate, a.periods, a.present, a.future, a.type))
  /\ UNCHANGED <<excel, arith>>

NPER_call(t) ==
  /\ Entered(t, "NPER")
  /\ Return(t, LET a == th[t].a
               IN  NPER(a.rate, a.payment, a.present, a.future, a.type))
  /\ UNCHANGED <<excel, arith>>

EFFECT_call(t) ==
  /\ Entered(t, "EFFECT")
  /\ Return(t, EFFECT(th[t].a.rate, th[t].a.periods))
  /\ UNCHANGED <<excel, arith>>

NOMINAL_call(t) ==
  /\ Entered(t, "NOMINAL")
  /\ Return(t, NOMINAL(th[t].a.rate, th[t].a.periods))
  /\ UNCHANGED <<excel, arith>>

(***************************************************************************)
(* PPMT and IPMT call excel.PMT, excel.IPMT and excel.FV: a step ends at   *)
(* each of these calls, which reads the member of excel when it is made    *)
(* and runs the function the script stored there.                          *)
(***************************************************************************)
\* PPMT, line 142, left operand: excel.PMT(rate,periods,present,future,type)
PPMT_pmt(t) ==
  /\ Entered(t, "PPMT")
  /\ excel["PMT"] = "PMT"
  /\ LET a == th[t].a
     IN  th' = [th EXCEPT
                  ![t].l.pmt = PMT(a.rate, a.periods, a.present, a.future,
                                   a.type),
                  ![t].pc = "PPMT_ipmt"]
  /\ UNCHANGED <<excel, arith>>

\* IPMT with `payment` assigned without `var`: a property of the global
\* object that every call shares, here kept on excel.
IPMT_payment_global(t) ==
  /\ \/ Entered(t, "IPMT")
     \/ At(t, "PPMT_ipmt") /\ excel["IPMT"] = "IPMT"
  /\ excel["PMT"] = "PMT"
  /\ LET a == th[t].a
         type == Default(a.type, Zero)
         payment == PMT(a.rate, a.periods, a.present, a.future, type)
     IN  /\ th' = [th EXCEPT ![t].l.type = type,
                             ![t].l.payment = payment,
                             ![t].pc = "IPMT_interest"]
         /\ excel' = [m \in Members \cup {"payment"} |->
                        IF m \in Members THEN excel[m] ELSE payment]
  /\ UNCHANGED arith

\* IPMT, lines 153-155, called by the caller or by PPMT (line 142)
IPMT_payment(t) ==
  /\ \/ Entered(t, "IPMT")
     \/ At(t, "PPMT_ipmt") /\ excel["IPMT"] = "IPMT"
  /\ excel["PMT"] = "PMT"
  /\ LET a == th[t].a
         type == Default(a.type, Zero)
     IN  th' = [th EXCEPT
                  ![t].l.type = type,
                  ![t].l.payment = PMT(a.rate, a.periods, a.present,
                                       a.future, type),
                  ![t].pc = "IPMT_interest"]
  /\ UNCHANGED <<excel, arith>>

\* IPMT, line 172: the value is returned to the caller, or to PPMT
IPMT_result(t, interest, value) ==
  IF excel[th[t].fn] = "IPMT"
  THEN th' = [th EXCEPT ![t].l.interest = interest,
                        ![t].ret = value, ![t].pc = "done"]
  ELSE th' = [th EXCEPT ![t].l.interest = interest,
                        ![t].l.ipmt = value, ![t].pc = "PPMT_return"]

\* IPMT, lines 157-172: the interest, and the return
IPMT_return(t) ==
  /\ At(t, "IPMT_interest")
  /\ th[t].a.period # One => excel["FV"] = "FV"
  /\ LET interest == IPMT_interest(th[t].a.rate, th[t].a.period,
                                   th[t].a.present, th[t].l.payment,
                                   th[t].l.type)
     IN  IPMT_result(t, interest, FMul(interest, th[t].a.rate))
  /\ UNCHANGED <<excel, arith>>

\* PPMT returning the sum of the two calls' results.
PPMT_return_sum(t) ==
  /\ At(t, "PPMT_return")
  /\ Return(t, FAdd(th[t].l.pmt, th[t].l.ipmt))
  /\ UNCHANGED <<excel, arith>>

\* PPMT, line 142: the difference is returned
PPMT_return(t) ==
  /\ At(t, "PPMT_return")
  /\ Return(t, FSub(th[t].l.pmt, th[t].l.ipmt))
  /\ UNCHANGED <<excel, arith>>

(***************************************************************************)
(* RATE: the entry, the loop test and the loop body are a step each.       *)
(***************************************************************************)
\* lines 68-92
RATE_call(t) ==
  /\ Entered(t, "RATE")
  /\ LET a == th[t].a
     IN  th' = [th EXCEPT
                  ![t].l = RATE_entry(a.periods, a.payment, a.present,
                                      a.future, a.type, a.guess) @@ th[t].l,
                  ![t].pc = "RATE_while"]
  /\ UNCHANGED <<excel, arith>>

\* line 93, and line 107 when the loop ends
RATE_while(t) ==
  /\ At(t, "RATE_while")
  /\ IF RATE_continue(th[t].l)
     THEN th' = [th EXCEPT ![t].pc = "RATE_body"]
     ELSE Return(t, th[t].l.rate)
  /\ UNCHANGED <<excel, arith>>

\* lines 94-105
RATE_body(t) ==
  /\ At(t, "RATE_body")
  /\ LET a == th[t].a
     IN  th' = [th EXCEPT
                  ![t].l = RATE_iterate(a.periods, a.payment, a.present,
                                        th[t].l),
                  ![t].pc = "RATE_while"]
  /\ UNCHANGED <<excel, arith>>

(***************************************************************************)
(* The calls made: the arguments are drawn from these sets.                *)
(***************************************************************************)
Periods == {Num(k) : k \in 1..MaxPeriods}
Rates == {Zero, Num(-1), Num(-2), Frac(1, 4), Frac(1, 2), One, Num(3)}
Types == {Undefined, Zero, One}
Futures == {Undefined, Zero, Num(2)}
Presents == {Num(-2), One, Num(2)}

PVCallers ==
  {Caller("PV", Args(r, Undefined, n, p, Undefined, f, t, Undefined)) :
     r \in Rates, n \in Periods, p \in {Num(-2), Num(3)},
     f \in {Zero, Num(2)}, t \in Types}

\* FV's fourth parameter, `value`, is passed as `present`.
FVCallers ==
  {Caller("FV", Args(r, Undefined, n, p, v, Undefined, t, Undefined)) :
     r \in Rates, n \in Periods, p \in {Num(-2), Num(3)},
     v \in {Zero, Num(2)}, t \in Types}

PMTCallers ==
  {Caller("PMT", Args(r, Undefined, n, Undefined, p, f, t, Undefined)) :
     r \in Rates, n \in Periods, p \in Presents, f \in Futures, t \in Types}

\* the period is one of 1..periods
PerCallers(fn) ==
  {c \in {Caller(fn, Args(r, q, n, Undefined, p, f, t, Undefined)) :
            r \in Rates, q \in Periods, n \in Periods, p \in Presents,
            f \in Futures, t \in Types} :
     Le(c.a.period, c.a.periods)}

\* NPER's result is a number of the model in either arithmetic: its
\* numerator, denominator and their quotient are floating-point numbers, and
\* the result is a special value or an integer of -MaxPeriods..MaxPeriods.
NPER_representable(a) ==
  LET t == Default(a.type, Zero)
      fut == Default(a.future, Zero)
      num == Sub(Mul(a.payment, Add(One, Mul(a.rate, t))), Mul(fut, a.rate))
      den == Add(Mul(a.present, a.rate),
                 Mul(a.payment, Add(One, Mul(a.rate, t))))
      u == Log(Div(num, den))
      v == Log(Add(One, a.rate))
  IN  /\ Round[num] = num /\ Round[den] = den
      /\ Round[Div(num, den)] = Div(num, den)
      /\ IsLog(u) /\ IsLog(v) => LogRepresentable(LogArg(u), LogArg(v))

NPERCallers ==
  {c \in {Caller("NPER", Args(r, Undefined, Undefined, p, v, f, t, Undefined)) :
            r \in Rates, p \in {Num(-4), Num(-2), Num(2)},
            v \in {Zero, One, Num(3)}, f \in Futures, t \in Types} :
     NPER_representable(c.a)}

\* EFFECT and NOMINAL: every kind of number; rate + 1 is a perfect square
\* where NOMINAL takes a root.
ConvCallers(fn, rates) ==
  {Caller(fn, Args(r, Undefined, n, Undefined, Undefined, Undefined,
                   Undefined, Undefined)) :
     r \in rates \cup {NaN, PosInf, NegInf, Num(-1), Zero},
     n \in {NaN, PosInf, NegInf, Num(-3), Zero, Frac(1, 2), One, Num(2),
            Frac(5, 2)}}

RATECaller(n, p, v, f, t, g) ==
  Caller("RATE", Args(Undefined, Undefined, n, p, v, f, t, g))

\* RATE: the arguments are floating-point numbers of the model.
RATECallers ==
  {RATECaller(n, p, v, f, t, g) :
     n \in Periods, p \in {Num(-3), Num(-1), Zero, Num(2)},
     v \in {Num(-4), Zero, Num(2), Num(5)},
     f \in {Undefined, One, Num(-3)}, t \in {Undefined, One},
     g \in {Undefined, Zero, Frac(1, 4), One, Frac(-1, 2)}}

\* The calls of the closed forms.
ClosedCallers ==
  PVCallers \cup FVCallers \cup PMTCallers \cup PerCallers("IPMT")
    \cup PerCallers("PPMT") \cup NPERCallers
    \cup ConvCallers("EFFECT", {Frac(1, 2), Num(3), Frac(5, 4)})
    \cup ConvCallers("NOMINAL", {Num(3), Frac(5, 4)})

\* One caller, one call of any of the nine functions; RATE is called where
\* the arithmetic is floating point.
Callers ==
  IF arith = "float"
  THEN ClosedCallers
         \cup {RATECaller(n, Num(2), Num(-4), f, Undefined, g) :
                 n \in Periods, f \in {Undefined, One},
                 g \in {Undefined, Zero, Frac(1, 4), One}}
  ELSE ClosedCallers

\* The calls two concurrent callers make.
ConcurrentCallers ==
  {Caller("PV", Args(Frac(1, 2), Undefined, Num(2), Num(-2), Undefined,
                     Zero, Undefined, Undefined)),
   Caller("FV", Args(Frac(1, 2), Undefined, Num(2), Num(-2), Num(3),
                     Undefined, One, Undefined)),
   Caller("PMT", Args(Frac(1, 2), Undefined, Num(2), Undefined, Num(3),
                      Undefined, Undefined, Undefined)),
   Caller("IPMT", Args(Frac(1, 2), Num(2), Num(2), Undefined, Num(3),
                       Undefined, Undefined, Undefined)),
   Caller("IPMT", Args(One, One, Num(2), Undefined, Num(3),
                       Num(2), One, Undefined)),
   Caller("PPMT", Args(Frac(1, 2), Num(2), Num(2), Undefined, Num(3),
                       Undefined, Undefined, Undefined)),
   Caller("PPMT", Args(One, Num(2), Num(2), Undefined, One,
                       Zero, One, Undefined)),
   Caller("NPER", Args(One, Undefined, Undefined, Num(-2), One,
                       Undefined, Undefined, Undefined)),
   Caller("EFFECT", Args(Frac(1, 2), Undefined, Num(2), Undefined,
                         Undefined, Undefined, Undefined, Undefined)),
   Caller("NOMINAL", Args(Num(3), Undefined, Num(2), Undefined,
                          Undefined, Undefined, Undefined, Undefined)),
   RATECaller(Num(3), Num(2), Num(-4), Undefined, Undefined, Frac(1, 4)),
   RATECaller(One, Num(-3), Num(2), One, One, Frac(1, 4))}

(***************************************************************************)
(* Specifications.                                                         *)
(***************************************************************************)
Step(t) ==
  \/ PV_call(t)
  \/ FV_call(t)
  \/ PMT_call(t)
  \/ NPER_call(t)
  \/ EFFECT_call(t)
  \/ NOMINAL_call(t)
  \/ PPMT_pmt(t)
  \/ IPMT_payment(t)
  \/ IPMT_return(t)
  \/ PPMT_return(t)
  \/ RATE_call(t)
  \/ RATE_while(t)
  \/ RATE_body(t)

Next == \E t \in 1..MaxCallers : Step(t)

\* One caller makes one call of a member of excel.
Init ==
  /\ arith \in {"exact", "float"}
  /\ excel = excelObject
  /\ th \in [{1} -> Callers]

Spec == Init /\ [][Next]_vars

\* One caller calls RATE; the function runs to its end.
RateInit ==
  /\ arith = "float"
  /\ excel = excelObject
  /\ th \in [{1} -> RATECallers]

RateNext ==
  \E t \in 1..MaxCallers : RATE_call(t) \/ RATE_while(t) \/ RATE_body(t)

RateSpec == RateInit /\ [][RateNext]_vars /\ WF_vars(RateNext)

\* MaxCallers callers, their steps interleaved in every order.
ConcurrentInit ==
  /\ arith = "float"
  /\ excel = excelObject
  /\ th \in [1..MaxCallers -> ConcurrentCallers]

ConcurrentSpec == ConcurrentInit /\ [][Next]_vars

(***************************************************************************)
(* Properties.                                                             *)
(***************************************************************************)
\* Caller t has returned from its call of member f.
Done(t, f) == t \in DOMAIN th /\ th[t].pc = "done" /\ th[t].fn = f

\* PMT and IPMT run on their own with the arguments of caller t.
PaymentOf(t) ==
  PMT(th[t].a.rate, th[t].a.periods, th[t].a.present, th[t].a.future,
      th[t].a.type)

InterestOf(t) ==
  IPMT(th[t].a.rate, th[t].a.period, th[t].a.periods, th[t].a.present,
       th[t].a.future, th[t].a.type)

C2_InvalidIsError ==
  \A t \in DOMAIN th :
    /\ Done(t, "EFFECT") \/ Done(t, "NOMINAL")
    /\ \/ ~IsFinite(th[t].a.rate) \/ ~IsFinite(th[t].a.periods)
       \/ Le(th[t].a.rate, Zero) \/ Lt(th[t].a.periods, One)
    => IsString(th[t].ret)

GtTolerance(x) ==
  /\ ~IsNaN(x)
  /\ \/ x = PosInf
     \/ IsFinite(x) /\ x[1] > x[2] \div 10000000

\* C4, as stated: when RATE returns after 20 or more iterations and its
\* last two estimates differ by more than 0.0000001, it returns '#NUM!'.
C4_NotConvergedIsNUM ==
  \A t \in DOMAIN th :
    /\ Done(t, "RATE") /\ th[t].l.i >= 20
    /\ IsFinite(th[t].l.x0) /\ IsFinite(th[t].l.x1)
    /\ GtTolerance(Abs(Sub(th[t].l.x1, th[t].l.x0)))
    => th[t].ret = ErrNUM

\* The call PMT(rate, periods, pv, 0) with type omitted, rate # 0.
AmortizingCall(t) ==
  /\ Done(t, "PMT")
  /\ th[t].a.rate # Zero
  /\ th[t].a.future = Zero
  /\ IsUndefined(th[t].a.type)

\* FV(rate, periods, PMT(rate, periods, pv, 0), pv) for the call of caller t
AmortizedValue(t) ==
  FV(th[t].a.rate, th[t].a.periods, th[t].ret, th[t].a.present, Undefined)

\* C5, as stated (its exact half): in exact arithmetic, for every rate # 0,
\* FV(rate, periods, PMT(rate, periods, pv, 0), pv) is exactly 0.
C5_PaymentAmortizes ==
  \A t \in DOMAIN th :
    AmortizingCall(t) /\ arith = "exact" => AmortizedValue(t) = Zero

\* The term (1+rate)^periods as the engine computes it for caller t.
TermOf(t) == MathPow(FAdd(One, th[t].a.rate), th[t].a.periods)

\* C5, amended: for every rate # 0 whose term (1+rate)^periods, as computed,
\* is finite and not 1, FV(rate, periods, PMT(rate, periods, pv, 0), pv) is
\* exactly 0 in exact arithmetic, and within tolerance in floating point
\* when nothing overflows: for the rates drawn here, within 4 units in the
\* last place of |pv| * term.
C5_AmortizesUnlessTermIsOne ==
  \A t \in DOMAIN th :
    AmortizingCall(t) /\ IsFinite(TermOf(t)) /\ TermOf(t) # One =>
      /\ arith = "exact" => AmortizedValue(t) = Zero
      /\ arith = "float" /\ IsFinite(AmortizedValue(t)) =>
           Le(Mul(Abs(AmortizedValue(t)), Num(Pow2[MantBits])),
              Mul(Num(4), Mul(Abs(th[t].a.present), Abs(TermOf(t)))))

\* PMT has returned a finite, non-zero payment for a rate # 0, in exact
\* arithmetic, and FV of it is 0.
C5_Witness ==
  \E t \in DOMAIN th :
    /\ AmortizingCall(t) /\ arith = "exact"
    /\ TermOf(t) # One
    /\ IsFinite(th[t].ret) /\ th[t].ret # Zero
    /\ Gt(th[t].a.rate, Zero)
    /\ AmortizedValue(t) = Zero

\* C6, as stated: PV, FV, PMT, IPMT, PPMT and NPER called with rate = 0
\* (finite arguments, periods > 0, payment # 0 for NPER) return a finite
\* number.
C6_ZeroRateIsFinite ==
  \A t \in DOMAIN th :
    /\ th[t].pc = "done"
    /\ th[t].fn \in {"PV", "FV", "PMT", "IPMT", "PPMT", "NPER"}
    /\ th[t].a.rate = Zero
    /\ th[t].fn = "NPER" => th[t].a.payment # Zero
    => IsFinite(th[t].ret)

\* C7, as stated: for rate > 0, present > 0, future = 0 and type 0 or 1,
\* PMT < 0, IPMT <= 0 and PPMT < 0 for every period of 1..periods.
C7_SignConvention ==
  \A t \in DOMAIN th :
    /\ th[t].pc = "done" /\ th[t].fn \in {"PMT", "IPMT", "PPMT"}
    /\ Gt(th[t].a.rate, Zero) /\ Gt(th[t].a.present, Zero)
    /\ th[t].a.future = Zero /\ th[t].a.type \in {Zero, One}
    => /\ th[t].fn = "PMT" => Lt(th[t].ret, Zero)
       /\ th[t].fn = "IPMT" => Le(th[t].ret, Zero)
       /\ th[t].fn = "PPMT" => Lt(th[t].ret, Zero)

\* C8: no step of any call changes excel or another caller's call, and
\* with the callers' steps interleaved in every order each call returns
\* what the function returns when it runs alone on the same arguments.
C8_Pure ==
  /\ [](excel = excelObject)
  /\ [][/\ excel' = excel
        /\ \A t \in DOMAIN th :
             th'[t] # th[t] =>
               \A u \in DOMAIN th \ {t} : th'[u] = th[u]]_vars
  /\ [](\A t \in DOMAIN th :
          th[t].pc = "done" => th[t].ret = Apply(th[t].fn, th[t].a))

\* A call of PPMT has returned while another caller is inside RATE's loop,
\* and a call of RATE has returned while another caller is inside PPMT.
C8_Witness ==
  \E t, u \in DOMAIN th :
    /\ Done(t, "PPMT") /\ IsFinite(th[t].ret)
    /\ th[u].fn = "RATE" /\ At(u, "RATE_body") /\ th[u].l.i >= 1

\* The residual at the estimate x of caller t's call of RATE: linearized
\* for |x| < 1e-10, exponential otherwise (lines 83-88).
ResidualAt(t, x) ==
  RATE_residual(th[t].a.periods, th[t].a.payment, th[t].a.present,
                th[t].l.future, th[t].l.type, x, Zero)[1]

\* C9, as stated: when RATE's loop is first reached, x0 = 0 and y0 =
\* present + payment*periods + future, and x1 = guess and y1 = the residual
\* at guess, linearized when |guess| < 1e-10 and exponential otherwise.
C9_EntryState ==
  \A t \in DOMAIN th :
    At(t, "RATE_while") /\ th[t].l.i = 0 =>
      /\ th[t].l.x0 = Zero
      /\ th[t].l.y0 = FAdd(FAdd(th[t].a.present,
                                FMul(th[t].a.payment, th[t].a.periods)),
                           th[t].l.future)
      /\ th[t].l.x1 = th[t].l.guess
      /\ th[t].l.y1 = ResidualAt(t, th[t].l.guess)

=============================================================================
